---- MODULE Spec2Model ----
(***************************************************************************)
(* Model of DataCleaning (src/data_cleaning_with_os.py): the table         *)
(* operations drop_date_columns, drop_all_non_numeric, drop_na,            *)
(* drop_columns_for_regression, the clean() entry point and the class      *)
(* balancer oversample() with its helper div_count_pos_neg().              *)
(*                                                                         *)
(* Numbers.  tp is a float in the source.  Here it is a fraction num/den   *)
(* with den > 0, and tp * neg_count / (1 - tp) is the exact fraction       *)
(* (num * neg_count) / (den - num).  For the values of TpSet and the row   *)
(* counts reached here the IEEE double computation of the source gives the *)
(* same truncated integer and the same outcome of tp < np.mean(y).         *)
(* NaN (a missing cell) is the number NaN below; it never occurs in y or   *)
(* in a matrix handed to oversample because drop_na removes its rows.      *)
(***************************************************************************)
EXTENDS Integers, Sequences, FiniteSets, TLC

VARIABLES
    op,            \* the operation this run calls
    df,            \* self.df: [cols |-> sequence of names, rows |-> sequence of rows]
    loaded,        \* the table as it was when the operation was called (history)
    regression,    \* the argument of the last clean() call
    X, y, tp,      \* the arguments of the oversample call
    handed,        \* TRUE when X, y, tp hold the arguments of an oversample call
    outX, outY,    \* what oversample returned
    sampled,       \* TRUE when np.random.choice returned an index array (the draw was made)
    pc             \* "ready", "returned" or "raised"

vars == <<op, df, loaded, regression, X, y, tp, handed, outX, outY, sampled, pc>>

-----------------------------------------------------------------------------
(* Bounds of the model *)

MaxRows == 5        \* longest y handed directly to oversample
MaxTableRows == 3   \* most rows of a small table
MaxTail == 2        \* most rows after the first HeadRows - 1 rows of a large table

(* The matrices given to oversample directly, one feature column: all rows *)
(* different, or rows equal in pairs.                                      *)
Matrices(n) == {[i \in 1..n |-> <<i>>], [i \in 1..n |-> <<(i + 1) \div 2>>]}

Frac(n, d) == [num |-> n, den |-> d]

(* Target proportions tried: below 0, inside (0,1), 1, above 1.  The values *)
(* inside (0,1) give target counts of 0 (1/4 with one or two negatives) and *)
(* above 0, and proportions below, equal to and above the input's.          *)
TpSet == {Frac(0 - 1, 2), Frac(1, 4), Frac(3, 10), Frac(1, 2),
          Frac(3, 4), Frac(1, 1), Frac(3, 2)}

SeqsFromTo(S, m, n) == UNION {[1..k -> S] : k \in m..n}

-----------------------------------------------------------------------------
(* Helpers for numpy arrays *)

(* s[lo] + ... + s[hi], by halves *)
RECURSIVE SumRange(_, _, _)
SumRange(s, lo, hi) ==
    IF lo > hi THEN 0
    ELSE IF lo = hi THEN s[lo]
    ELSE LET mid == (lo + hi) \div 2
         IN SumRange(s, lo, mid) + SumRange(s, mid + 1, hi)

(* np.sum(s) *)
SumSeq(s) == SumRange(s, 1, Len(s))

(* np.sum(mask) for mask = (y == v) *)
CountEq(s, v) == Cardinality({i \in DOMAIN s : s[i] = v})

(* positions i of s with s[i] = v, ascending: the boolean mask s == v *)
MaskIdx(s, v) ==
    LET hit(i) == s[i] = v
    IN SelectSeq([i \in 1..Len(s) |-> i], hit)

(* a[idx] for an index array idx (1-based positions) *)
Take(a, idx) == [k \in 1..Len(idx) |-> a[idx[k]]]

Abs(n) == IF n < 0 THEN 0 - n ELSE n

-----------------------------------------------------------------------------
(* div_count_pos_neg, lines 102-107 *)

div_count_pos_neg(Xa, ya) ==
    LET negatives == MaskIdx(ya, 0)
        positives == MaskIdx(ya, 1)
    IN [neg_count |-> CountEq(ya, 0),
        pos_count |-> CountEq(ya, 1),
        X_pos |-> Take(Xa, positives),
        X_neg |-> Take(Xa, negatives),
        y_pos |-> Take(ya, positives),
        y_neg |-> Take(ya, negatives)]

(* line 124: tp < np.mean(y).  The mean of an empty y is nan and every    *)
(* comparison with nan is False.                                           *)
ShortCircuitReversed(t, ya) ==
    IF Len(ya) = 0 THEN FALSE
    ELSE t.num * Len(ya) > SumSeq(ya) * t.den

ShortCircuit(t, ya) ==
    IF Len(ya) = 0 THEN FALSE
    ELSE t.num * Len(ya) < SumSeq(ya) * t.den

(* line 128: (tp * neg_count) / (1 - tp), as the fraction num / den; den is *)
(* 0 for tp = 1 (the float division then gives inf or nan).                 *)
positive_size_no_division(t, neg_count) ==
    [num |-> t.num * neg_count, den |-> t.den]

positive_size(t, neg_count) ==
    [num |-> t.num * neg_count, den |-> t.den - t.num]

(* int(a / b), b # 0: truncation toward zero (line 130) *)
IntTruncCeil(a, b) ==
    IF (a >= 0) = (b > 0)
    THEN (Abs(a) + Abs(b) - 1) \div Abs(b)
    ELSE 0 - (Abs(a) \div Abs(b))

IntTrunc(a, b) ==
    IF (a >= 0) = (b > 0)
    THEN Abs(a) \div Abs(b)
    ELSE 0 - (Abs(a) \div Abs(b))

(* np.random.choice(a=np.arange(n), size=size, replace=True), lines 129-131. *)
(* A negative size raises ValueError; an empty a raises ValueError when     *)
(* size > 0; for an empty a and size 0 the numpy release decides (older     *)
(* ones raise "a must be non-empty", newer ones return an empty array).     *)
(* The indices are 0-based as in numpy.                                     *)
ChoiceError == [ok |-> FALSE, idxs |-> <<>>]

np_random_choice_empty_allowed(n, size) ==
    IF size < 0 THEN {ChoiceError}
    ELSE IF n = 0 THEN {[ok |-> TRUE, idxs |-> <<>>]}
    ELSE {[ok |-> TRUE, idxs |-> f] : f \in [1..size -> 0..(n - 1)]}

np_random_choice(n, size) ==
    IF size < 0 THEN {ChoiceError}
    ELSE IF n = 0
         THEN IF size > 0 THEN {ChoiceError}
              ELSE {ChoiceError, [ok |-> TRUE, idxs |-> <<>>]}
    ELSE {[ok |-> TRUE, idxs |-> f] : f \in [1..size -> 0..(n - 1)]}

(* lines 132-137: index the positives, stack positives above negatives *)
StackNegFirst(d, idxs) ==
    [X |-> d.X_neg \o [k \in 1..Len(idxs) |-> d.X_pos[idxs[k] + 1]],
     y |-> d.y_neg \o [k \in 1..Len(idxs) |-> d.y_pos[idxs[k] + 1]]]

StackDropFirstNeg(d, idxs) ==
    [X |-> [k \in 1..Len(idxs) |-> d.X_pos[idxs[k] + 1]]
             \o (IF d.X_neg = <<>> THEN <<>> ELSE Tail(d.X_neg)),
     y |-> [k \in 1..Len(idxs) |-> d.y_pos[idxs[k] + 1]]
             \o (IF d.y_neg = <<>> THEN <<>> ELSE Tail(d.y_neg))]

Stack(d, idxs) ==
    [X |-> [k \in 1..Len(idxs) |-> d.X_pos[idxs[k] + 1]] \o d.X_neg,
     y |-> [k \in 1..Len(idxs) |-> d.y_pos[idxs[k] + 1]] \o d.y_neg]

(* The outcomes of oversample(X, y, tp), lines 124-137: a set of records   *)
(* [pc, X, y, sampled], one per possible draw.                             *)
Raised == [pc |-> "raised", X |-> <<>>, y |-> <<>>, sampled |-> FALSE]

OversampleOutcomes(Xa, ya, t) ==
    IF ShortCircuit(t, ya)
    THEN {[pc |-> "returned", X |-> Xa, y |-> ya, sampled |-> FALSE]}
    ELSE LET d == div_count_pos_neg(Xa, ya)
             ps == positive_size(t, d.neg_count)
         IN IF ps.den = 0
            THEN {Raised}   \* int(inf): OverflowError, int(nan): ValueError
            ELSE LET size == IntTrunc(ps.num, ps.den)
                 IN {IF c.ok
                     THEN [pc |-> "returned", X |-> Stack(d, c.idxs).X,
                           y |-> Stack(d, c.idxs).y, sampled |-> TRUE]
                     ELSE Raised : c \in np_random_choice(d.pos_count, size)}

-----------------------------------------------------------------------------
(* Tables: cols is the sequence of column names, each row a function from  *)
(* the column names to numbers.                                            *)

NaN == 0 - 1        \* a missing cell

HeadRows == 1000    \* self.df.head(1000), line 80

(* line 81 *)
SelectedColumns == <<"fraud", "body_length", "channels", "num_payouts", "org_twitter">>

(* line 72 *)
RegressionDropColumns == <<"phone_iPhone", "city_Astapor">>

(* line 149 *)
ScaledColumns == <<"avg_dist", "avg_rating_by_driver", "avg_surge", "surge_pct",
                   "trips_in_first_30_days", "weekday_pct">>

Range(s) == {s[i] : i \in DOMAIN s}

Min(a, b) == IF a < b THEN a ELSE b

EmptyTable == [cols |-> <<>>, rows |-> <<>>]

KeyError(t) == [ok |-> FALSE, t |-> t]
Done(t) == [ok |-> TRUE, t |-> t]

(* the columns of t other than those of names, in the order of t *)
WithoutColumns(t, names) ==
    LET keep(c) == c \notin names
        cs == SelectSeq(t.cols, keep)
    IN [cols |-> cs,
        rows |-> [i \in 1..Len(t.rows) |-> [c \in Range(cs) |-> t.rows[i][c]]]]

(* df.drop(name, axis=1): KeyError when the column is absent *)
DropColumn(t, name) ==
    IF name \in Range(t.cols) THEN Done(WithoutColumns(t, {name})) ELSE KeyError(t)

(* drop_date_columns, lines 47-48: two in-place drops, one after the other *)
drop_date_columns(t) ==
    LET first == DropColumn(t, "last_trip_date")
    IN IF ~first.ok THEN first ELSE DropColumn(first.t, "signup_date")

(* drop_all_non_numeric, lines 80-81: self.df is first cut to its first    *)
(* 1000 rows, then the selection df[[...]] raises KeyError when a column   *)
(* is absent and otherwise keeps the listed columns in the listed order.   *)
drop_all_non_numeric_no_head(t) ==
    IF Range(SelectedColumns) \subseteq Range(t.cols)
    THEN Done([cols |-> SelectedColumns,
               rows |-> [i \in 1..Len(t.rows) |->
                            [c \in Range(SelectedColumns) |-> t.rows[i][c]]]])
    ELSE KeyError(t)

drop_all_non_numeric(t) ==
    LET head == [cols |-> t.cols,
                 rows |-> SubSeq(t.rows, 1, Min(Len(t.rows), HeadRows))]
    IN IF Range(SelectedColumns) \subseteq Range(head.cols)
       THEN Done([cols |-> SelectedColumns,
                  rows |-> [i \in 1..Len(head.rows) |->
                               [c \in Range(SelectedColumns) |-> head.rows[i][c]]]])
       ELSE KeyError(head)

(* drop_na, line 63: dropna(axis=0, how='any') *)
drop_na(t) ==
    LET kept(r) == \A c \in Range(t.cols) : r[c] # NaN
    IN [cols |-> t.cols, rows |-> SelectSeq(t.rows, kept)]

(* self.df[col].values *)
ColumnValues(t, col) == [i \in 1..Len(t.rows) |-> t.rows[i][col]]

(* self.df.values, line 152: one tuple per row, in column order *)
Values(t) ==
    [i \in 1..Len(t.rows) |-> [k \in 1..Len(t.cols) |-> t.rows[i][t.cols[k]]]]

(* drop_columns_for_regression, line 72: df.drop of a list raises KeyError *)
(* when any of its names is absent and then assigns nothing.               *)
drop_columns_for_regression(t) ==
    IF Range(RegressionDropColumns) \subseteq Range(t.cols)
    THEN Done(WithoutColumns(t, Range(RegressionDropColumns)))
    ELSE KeyError(t)

(* lines 149-150: self.df[col] = scale(self.df[col]) for each listed       *)
(* column; self.df[col] raises KeyError when the column is absent.  The    *)
(* scaled values are not computed here (a z-score is not an integer): no   *)
(* table reaches this loop with its columns present, see C9.               *)
ScaleColumns(t) ==
    IF Range(ScaledColumns) \subseteq Range(t.cols) THEN Done(t) ELSE KeyError(t)

(* clean, lines 142-152: everything before the call of oversample.         *)
(* [ok, t, X, y]: t is self.df when the step ends or raises.               *)
CleanPrepare(t, regr) ==
    LET sel == drop_all_non_numeric(t)
    IN IF ~sel.ok THEN [ok |-> FALSE, t |-> sel.t, X |-> <<>>, y |-> <<>>]
       ELSE
       LET full == drop_na(sel.t)
           ys == ColumnValues(full, "fraud")
           popped == WithoutColumns(full, {"fraud"})
           reg == IF ~regr THEN Done(popped)
                  ELSE LET dropped == drop_columns_for_regression(popped)
                       IN IF ~dropped.ok THEN dropped ELSE ScaleColumns(dropped.t)
       IN IF ~reg.ok THEN [ok |-> FALSE, t |-> reg.t, X |-> <<>>, y |-> <<>>]
          ELSE [ok |-> TRUE, t |-> reg.t, X |-> Values(reg.t), y |-> ys]

(* line 154 *)
CleanTp == Frac(3, 10)

-----------------------------------------------------------------------------
(* The tables tried *)

(* A row over the columns cs: label l in column fraud, the value 10 * v +  *)
(* (position of the column) elsewhere, NaN in column nan.                  *)
AllColumns == <<"fraud", "body_length", "channels", "num_payouts", "org_twitter",
                "acct_type", "last_trip_date", "signup_date">>

Position(c) == CHOOSE k \in DOMAIN AllColumns : AllColumns[k] = c

Row(cs, l, v, nan) ==
    [c \in Range(cs) |->
        IF c = nan THEN NaN
        ELSE IF c = "fraud" THEN l
        ELSE 10 * v + Position(c)]

RowKinds == ([l : {0, 1}, v : {1, 2}, nan : {"none", "channels", "acct_type"}])
               \cup {[l |-> 0, v |-> 1, nan |-> "fraud"]}

RowsOf(cs, kinds) == [i \in DOMAIN kinds |-> Row(cs, kinds[i].l, kinds[i].v, kinds[i].nan)]

(* column lists of the tables given to clean *)
CleanColumnLists ==
    {<<"acct_type", "fraud", "body_length", "channels", "num_payouts", "org_twitter">>,
     <<"org_twitter", "num_payouts", "channels", "body_length", "fraud">>,
     <<"fraud", "body_length", "num_payouts", "org_twitter", "acct_type">>}

SmallTables ==
    {[cols |-> cs, rows |-> RowsOf(cs, ks)] :
        cs \in CleanColumnLists, ks \in SeqsFromTo(RowKinds, 0, MaxTableRows)}

(* HeadRows - 1 equal complete negative rows, then up to MaxTail rows *)
TailKinds == {[l |-> 0, v |-> 2, nan |-> "none"], [l |-> 1, v |-> 2, nan |-> "none"],
              [l |-> 0, v |-> 2, nan |-> "channels"], [l |-> 1, v |-> 1, nan |-> "acct_type"]}

LargeColumns == <<"acct_type", "fraud", "body_length", "channels", "num_payouts", "org_twitter">>

LargeTables ==
    {[cols |-> LargeColumns,
      rows |-> [i \in 1..(HeadRows - 1) |-> Row(LargeColumns, 0, 1, "none")]
                  \o RowsOf(LargeColumns, ks)] :
        ks \in SeqsFromTo(TailKinds, 0, MaxTail)}

(* column lists of the tables given to drop_date_columns *)
DateColumnLists ==
    {<<"fraud", "body_length">>,
     <<"last_trip_date", "fraud", "body_length">>,
     <<"fraud", "signup_date", "body_length">>,
     <<"signup_date", "fraud", "last_trip_date">>,
     <<"last_trip_date", "signup_date">>}

DateTables ==
    {[cols |-> cs, rows |-> RowsOf(cs, ks)] :
        cs \in DateColumnLists,
        ks \in SeqsFromTo([l : {0, 1}, v : {1, 2}, nan : {"none"}], 0, MaxTableRows)}

-----------------------------------------------------------------------------
(* The balancer called directly on a non-empty data set *)

Init ==
    /\ op = "oversample"
    /\ df = EmptyTable
    /\ loaded = EmptyTable
    /\ regression = FALSE
    /\ y \in SeqsFromTo({0, 1}, 1, MaxRows)
    /\ X \in Matrices(Len(y))
    /\ tp \in TpSet
    /\ handed = TRUE
    /\ outX = <<>>
    /\ outY = <<>>
    /\ sampled = FALSE
    /\ pc = "ready"

Oversample ==
    /\ op = "oversample"
    /\ pc = "ready"
    /\ \E r \in OversampleOutcomes(X, y, tp) :
          /\ pc' = r.pc
          /\ outX' = r.X
          /\ outY' = r.y
          /\ sampled' = r.sampled
    /\ UNCHANGED <<op, df, loaded, regression, X, y, tp, handed>>

Next == Oversample

Spec == Init /\ [][Next]_vars

-----------------------------------------------------------------------------
(* clean(regression) called on a loaded table *)

NoCall ==
    /\ X = <<>> /\ y = <<>> /\ tp = CleanTp
    /\ handed = FALSE
    /\ outX = <<>> /\ outY = <<>>
    /\ sampled = FALSE
    /\ pc = "ready"

InitClean ==
    /\ op = "clean"
    /\ df \in SmallTables \cup LargeTables
    /\ loaded = df
    /\ regression = FALSE
    /\ NoCall

Clean(regr) ==
    /\ op = "clean"
    /\ pc = "ready"
    /\ regression' = regr
    /\ LET prep == CleanPrepare(df, regr)
       IN /\ df' = prep.t
          /\ IF ~prep.ok
             THEN /\ pc' = "raised"
                  /\ UNCHANGED <<X, y, tp, handed, outX, outY, sampled>>
             ELSE /\ X' = prep.X
                  /\ y' = prep.y
                  /\ tp' = CleanTp
                  /\ handed' = TRUE
                  /\ \E r \in OversampleOutcomes(prep.X, prep.y, CleanTp) :
                        /\ pc' = r.pc
                        /\ outX' = r.X
                        /\ outY' = r.y
                        /\ sampled' = r.sampled
    /\ UNCHANGED <<op, loaded>>

NextClean == \E regr \in BOOLEAN : Clean(regr)

SpecClean == InitClean /\ [][NextClean]_vars

-----------------------------------------------------------------------------
(* drop_date_columns called on a loaded table *)

InitDrop ==
    /\ op = "drop_date_columns"
    /\ df \in DateTables
    /\ loaded = df
    /\ regression = FALSE
    /\ NoCall

DropDateColumns ==
    /\ op = "drop_date_columns"
    /\ pc = "ready"
    /\ LET r == drop_date_columns(df)
       IN /\ df' = r.t
          /\ pc' = IF r.ok THEN "returned" ELSE "raised"
    /\ UNCHANGED <<op, loaded, regression, X, y, tp, handed, outX, outY, sampled>>

NextDrop == DropDateColumns

SpecDrop == InitDrop /\ [][NextDrop]_vars

-----------------------------------------------------------------------------
(* Properties of the balancer, stated on the arguments X, y, tp and on the *)
(* result outX, outY without the operators of the model above.             *)

Called == op = "oversample" /\ pc # "ready"
Returned == op = "oversample" /\ pc = "returned"

PosCount == Cardinality({i \in DOMAIN y : y[i] = 1})
NegCount == Cardinality({i \in DOMAIN y : y[i] = 0})
OutPos == Cardinality({i \in DOMAIN outY : outY[i] = 1})
OutNeg == Cardinality({i \in DOMAIN outY : outY[i] = 0})

TpInRange == 0 <= tp.num /\ tp.num < tp.den

(* pos_count / (pos_count + neg_count) compared with tp, for a non-empty y *)
ProportionAbove == Len(y) > 0 /\ PosCount * tp.den > tp.num * Len(y)
ProportionEqual == Len(y) > 0 /\ PosCount * tp.den = tp.num * Len(y)
ProportionBelow == Len(y) > 0 /\ PosCount * tp.den < tp.num * Len(y)

(* floor(tp * neg_count / (1 - tp)) for tp in [0, 1) *)
TargetPosCount == (tp.num * NegCount) \div (tp.den - tp.num)

Unchanged == Returned /\ outX = X /\ outY = y /\ ~sampled

(* the rows of X with label v, in input order *)
RECURSIVE RowsWithLabel(_, _, _)
RowsWithLabel(Xa, ya, v) ==
    IF ya = <<>> THEN <<>>
    ELSE IF Head(ya) = v THEN <<Head(Xa)>> \o RowsWithLabel(Tail(Xa), Tail(ya), v)
    ELSE RowsWithLabel(Tail(Xa), Tail(ya), v)

(* how often the row r with label v occurs in (Xa, ya) *)
Occurrences(Xa, ya, r, v) ==
    Cardinality({i \in DOMAIN ya : Xa[i] = r /\ ya[i] = v})

(* C1, as claimed, for tp in [0,1): when the positive proportion of y is   *)
(* greater than or equal to tp (equality included), oversample returns X   *)
(* and y unchanged without drawing.                                        *)
C1_NoOpAtOrAboveTp ==
    (Called /\ TpInRange /\ (ProportionAbove \/ ProportionEqual)) => Unchanged

(* C1, amended: when the positive proportion of y is strictly greater than *)
(* tp, oversample returns X and y unchanged (same rows, values, order)     *)
(* and makes no draw.                                                      *)
C1_NoOpAboveTp ==
    (Called /\ ProportionAbove) => Unchanged

C1_Witness ==
    /\ Returned /\ ~sampled
    /\ y = <<0, 1, 0, 1>> /\ tp = Frac(3, 10)
    /\ outX = X /\ outY = y

(* C2: when the short-circuit is not taken, tp is in [0,1) and y has a     *)
(* positive row, the output has target_pos_count + neg_count rows, of      *)
(* which target_pos_count are labelled 1 and neg_count are labelled 0.     *)
C2_RowCount ==
    (Called /\ ~ProportionAbove /\ TpInRange /\ PosCount >= 1) =>
        /\ Returned
        /\ Len(outX) = TargetPosCount + NegCount
        /\ Len(outY) = TargetPosCount + NegCount
        /\ OutPos = TargetPosCount
        /\ OutNeg = NegCount

C2_Witness ==
    /\ Returned /\ sampled
    /\ y = <<0, 0, 0, 0, 1>> /\ tp = Frac(1, 2)
    /\ Len(outX) = 8 /\ OutPos = 4 /\ OutNeg = 4

GenuineOversampling ==
    Called /\ ProportionBelow /\ TpInRange /\ PosCount >= 1 /\ NegCount >= 1

(* C3, as claimed: in the genuine oversampling case the positive           *)
(* proportion of the output equals tp up to rounding (here: to within      *)
(* one millionth).                                                         *)
C3_ProportionEqualsTp ==
    GenuineOversampling =>
        /\ Returned
        /\ Abs(OutPos * tp.den - tp.num * Len(outY)) * 1000000
              <= tp.den * Len(outY)

(* C3, amended: in the genuine oversampling case the positive proportion   *)
(* of the output never exceeds tp, and one more positive row would make it *)
(* exceed tp: it is the largest proportion not above tp that whole rows    *)
(* allow, and can be below tp by more than rounding.                       *)
C3_ProportionAtMostTp ==
    GenuineOversampling =>
        /\ Returned
        /\ OutPos * tp.den <= tp.num * Len(outY)
        /\ (OutPos + 1) * tp.den > tp.num * (Len(outY) + 1)

C3_Witness ==
    /\ Returned /\ sampled /\ GenuineOversampling
    /\ y = <<0, 0, 0, 0, 1>> /\ tp = Frac(3, 10)
    /\ OutPos = 1 /\ Len(outY) = 5

(* C4, as claimed: for tp in [0,1) every input row of the majority class,  *)
(* whichever class that is, occurs in the output at least as often as in   *)
(* the input, for every outcome of the draw.                               *)
C4_MajorityKept ==
    (Returned /\ TpInRange) =>
        \A v \in {0, 1} :
            (Cardinality({i \in DOMAIN y : y[i] = v})
                 > Cardinality({i \in DOMAIN y : y[i] = 1 - v})) =>
                \A i \in DOMAIN y :
                    y[i] = v =>
                        Occurrences(outX, outY, X[i], v) >= Occurrences(X, y, X[i], v)

(* C4, amended: for tp in [0,1) every input row of the negative class,     *)
(* majority or not, occurs in the output at least as often as in the       *)
(* input, for every outcome of the draw (rows of a positive majority can   *)
(* be lost when the positives are resampled).                              *)
C4_NegativesKept ==
    (Returned /\ TpInRange) =>
        \A i \in DOMAIN y :
            y[i] = 0 =>
                Occurrences(outX, outY, X[i], 0) >= Occurrences(X, y, X[i], 0)

C4_Witness ==
    /\ Returned /\ sampled /\ TpInRange
    /\ NegCount > PosCount /\ PosCount >= 1
    /\ OutPos > PosCount
    /\ \E i, j \in DOMAIN y : i # j /\ y[i] = 0 /\ y[j] = 0 /\ X[i] = X[j]

(* C5: every tp outside [0, 1) is rejected with an error raised before any *)
(* sampling; for no such tp does the call return a result.                 *)
C5_InvalidTpRejected ==
    (Called /\ ~TpInRange) => (pc = "raised" /\ ~sampled)

(* C6, as claimed, in the case the claim names: with no positive row, tp   *)
(* in [0,1) and target_pos_count > 0, oversample does not end in an error  *)
(* and returns exactly the negative rows with their 0 labels.              *)
C6_EmptyPositiveBlock ==
    (Called /\ PosCount = 0 /\ TpInRange /\ TargetPosCount > 0) =>
        /\ Returned
        /\ outX = RowsWithLabel(X, y, 0)
        /\ outY = [i \in 1..NegCount |-> 0]

(* C6, amended: with no positive row and tp in [0,1), a call with          *)
(* target_pos_count > 0 ends in an error and returns nothing; a call that  *)
(* returns (possible only when target_pos_count = 0) returns exactly the   *)
(* negative rows with their 0 labels.                                      *)
C6_EmptyPositiveRaises ==
    (Called /\ PosCount = 0 /\ TpInRange) =>
        /\ TargetPosCount > 0 => pc = "raised"
        /\ Returned =>
              /\ outX = RowsWithLabel(X, y, 0)
              /\ outY = [i \in 1..NegCount |-> 0]

C6_Witness ==
    /\ Called /\ PosCount = 0 /\ TpInRange
    /\ y = <<0, 0, 0, 0>> /\ tp = Frac(1, 2)
    /\ TargetPosCount = 4
    /\ pc = "raised"

(* C10: when oversample resamples, the output is target_pos_count copies   *)
(* of input rows labelled 1, with labels 1, followed by the input rows     *)
(* labelled 0, each once and in input order, with labels 0; outX and outY  *)
(* have the same length.                                                   *)
C10_PositivesThenNegatives ==
    (Returned /\ sampled) =>
        LET T == Len(outX) - NegCount
        IN /\ Len(outX) = Len(outY)
           /\ T >= 0
           /\ TpInRange => T = TargetPosCount
           /\ \A k \in 1..T :
                 /\ outY[k] = 1
                 /\ \E i \in DOMAIN y : y[i] = 1 /\ X[i] = outX[k]
           /\ \A k \in (T + 1)..Len(outX) : outY[k] = 0
           /\ SubSeq(outX, T + 1, Len(outX)) = RowsWithLabel(X, y, 0)

C10_Witness ==
    /\ Returned /\ sampled
    /\ y = <<1, 0, 1, 0>> /\ tp = Frac(1, 2)
    /\ X = [i \in 1..4 |-> <<i>>]
    /\ outX = <<<<3>>, <<1>>, <<2>>, <<4>>>>
    /\ outY = <<1, 1, 0, 0>>

-----------------------------------------------------------------------------
(* Properties of the table operations, stated on the loaded table, the     *)
(* table df left behind and the arguments X, y handed to oversample.       *)

DropCalled == op = "drop_date_columns" /\ pc # "ready"

(* C7: drop_date_columns is all-or-nothing: when 'last_trip_date' or       *)
(* 'signup_date' is absent from the table the call fails and the table     *)
(* keeps exactly the columns (and cells) it had before the call.           *)
C7_DropAllOrNothing ==
    (DropCalled /\ ~({"last_trip_date", "signup_date"} \subseteq Range(loaded.cols))) =>
        (pc = "raised" /\ df = loaded)

CleanCalled == op = "clean" /\ pc # "ready"

HoldsSelectedColumns == Range(SelectedColumns) \subseteq Range(loaded.cols)

FeatureColumns == <<"body_length", "channels", "num_payouts", "org_twitter">>

Complete(r) == \A c \in Range(SelectedColumns) : r[c] # NaN

FeatureRows(rows) ==
    [i \in 1..Len(rows) |-> [k \in 1..Len(FeatureColumns) |-> rows[i][FeatureColumns[k]]]]

Labels(rows) == [i \in 1..Len(rows) |-> rows[i]["fraud"]]

(* C8, as claimed: clean(regression=false) on a table holding the label    *)
(* and the fixed feature columns hands the balancer one row for every      *)
(* table row without a missing value in the selected columns, whatever the *)
(* table's size, in table order; X has the fixed feature columns and y[i]  *)
(* is the label of X[i].                                                   *)
C8_EveryCompleteRow ==
    (CleanCalled /\ ~regression /\ HoldsSelectedColumns) =>
        LET kept == SelectSeq(loaded.rows, Complete)
        IN handed /\ X = FeatureRows(kept) /\ y = Labels(kept)

(* C8, amended: clean(regression=false) on a table holding the label and   *)
(* the fixed feature columns hands the balancer one row for every row      *)
(* among the first 1000 table rows that has no missing value in the        *)
(* selected columns (rows after the 1000th are removed), in table order; X *)
(* has the fixed feature columns and y[i] is the label of X[i].            *)
C8_CompleteRowsOfHead ==
    (CleanCalled /\ ~regression /\ HoldsSelectedColumns) =>
        LET first == SubSeq(loaded.rows, 1, Min(Len(loaded.rows), HeadRows))
            kept == SelectSeq(first, Complete)
        IN handed /\ X = FeatureRows(kept) /\ y = Labels(kept)

C8_Witness ==
    /\ CleanCalled /\ ~regression /\ HoldsSelectedColumns
    /\ Len(loaded.rows) = HeadRows + 1
    /\ Complete(loaded.rows[HeadRows]) /\ loaded.rows[HeadRows]["fraud"] = 1
    /\ Complete(loaded.rows[HeadRows + 1])
    /\ handed /\ Len(X) = HeadRows /\ y[HeadRows] = 1
    /\ pc = "returned"

(* C9: clean(regression=true) completes and returns (X, y) on every table  *)
(* on which clean(regression=false) succeeds (whatever the draw): the      *)
(* columns its regression branch drops and scales are present when that    *)
(* branch runs.                                                            *)
C9_RegressionCompletes ==
    (CleanCalled /\ regression
        /\ LET prep == CleanPrepare(loaded, FALSE)
           IN prep.ok /\ \A r \in OversampleOutcomes(prep.X, prep.y, CleanTp) :
                             r.pc = "returned") =>
        (handed /\ pc = "returned")

====
